---------------------------- MODULE Spec2Model ----------------------------
(***************************************************************************)
(* A model of the SolanaBot position monitor (src/bot.py), its store       *)
(* (src/database.py), the market-data lookup (src/data_engine.py), the key *)
(* vault (src/key_manager.py), the call of jupiter.execute_swap, and the   *)
(* network functions retry_request and execute_swap (src/jupiter.py) and   *)
(* get_sol_price (src/data_engine.py).                                     *)
(*                                                                         *)
(* Prices are integers in hundredths of a unit; percentages are integers.  *)
(* pnl = (curr - entry) / entry * 100 is kept as the pair                  *)
(* <<(curr - entry) * 100, entry>> and compared by cross-multiplication,   *)
(* i.e. in exact arithmetic (the rounding of Python floats is not          *)
(* modelled).                                                              *)
(*                                                                         *)
(* sentinel.db outlives the process: init_db only creates missing tables,  *)
(* so Init draws the trades and wallets rows the file may already hold.    *)
(***************************************************************************)
EXTENDS Integers, Sequences, FiniteSets, TLC

\* ------------------------------------------------------------------ bounds
NumUsers == 1
NumTrades == 1
MaxTrades == 2

Users == 1..NumUsers

\* ------------------------------------------------------- program constants
DefaultTakeProfit == 30
DefaultStopLoss == 15
DefaultSlippage == 1
TpMin == 1
TpMax == 1000
SlMin == 1
SlMax == 99

\* --------------------------------------------------------- input domains
EntryPrices == {0, 100}
\* priceUsd values a DexScreener pair may carry (hundredths)
PairPrices == {85, 100, 130}
TpInputs == {0, 20}
SlInputs == {10, 100}
Passphrases == {"p1", "p2"}
PrivKeys == {"k1"}

NoRow == [none |-> TRUE]
None == [none |-> TRUE]
Missing == -1

\* ------------------------------------------------------------- key vault
\* key_manager.MASTER_PASSWORD of the running process
MasterPassword == "p1"

\* Fernet token: the plaintext sealed under the key derived from a passphrase.
encrypt_with(k, pw) == [sealed |-> k, under |-> pw]

encrypt_key(k) == encrypt_with(k, MasterPassword)

\* decrypt_key handing back bytes whatever key sealed the token.
decrypt_key_lenient(c) ==
    IF c.under = MasterPassword
    THEN [raised |-> FALSE, value |-> c.sealed]
    ELSE [raised |-> FALSE, value |-> "garbage"]

\* Fernet.decrypt raises InvalidToken when the token was sealed under another key.
decrypt_key(c) ==
    IF c.under = MasterPassword
    THEN [raised |-> FALSE, value |-> c.sealed]
    ELSE [raised |-> TRUE, value |-> "InvalidToken"]

\* ----------------------------------------------------------------- store
DefaultSettings ==
    [slippage |-> DefaultSlippage, auto_buy |-> FALSE, auto_sell |-> TRUE,
     simulation_mode |-> TRUE, take_profit |-> DefaultTakeProfit,
     stop_loss |-> DefaultStopLoss]

AllowedColumns ==
    {"slippage", "auto_buy", "auto_sell", "simulation_mode", "take_profit", "stop_loss"}

\* get_settings writing the defaults over the row it finds.
SettingsAfterGetReset(st, u) == [st EXCEPT ![u] = DefaultSettings]

\* The settings table after get_settings(u): the row is inserted when absent.
SettingsAfterGet(st, u) ==
    IF st[u] = NoRow THEN [st EXCEPT ![u] = DefaultSettings] ELSE st

\* UPDATE settings SET col = v WHERE user_id = u: touches no row when none exists.
update_setting(st, u, col, v) ==
    IF col \notin AllowedColumns THEN st
    ELSE IF st[u] = NoRow THEN st
    ELSE [st EXCEPT ![u] = [st[u] EXCEPT ![col] = v]]

get_wallet(ws, u) ==
    IF ws[u] = NoRow THEN None
    ELSE LET d == decrypt_key(ws[u].encrypted_private_key)
         IN IF d.raised THEN None
            ELSE [none |-> FALSE, user_id |-> u, key |-> d.value,
                  public_key |-> ws[u].public_key]

\* add_wallet keeping the public key of the row it replaces.
add_wallet_keep_pub(ws, u, priv, pub) ==
    [ws EXCEPT ![u] = [encrypted_private_key |-> encrypt_key(priv),
                       public_key |-> IF ws[u] = NoRow THEN pub
                                      ELSE ws[u].public_key]]

\* INSERT OR REPLACE INTO wallets (user_id, encrypted_private_key, public_key)
add_wallet(ws, u, priv, pub) ==
    [ws EXCEPT ![u] = [encrypted_private_key |-> encrypt_key(priv),
                       public_key |-> pub]]

add_trade(tr, u, ca, sol_amt, entry_price, token_amt) ==
    Append(tr, [user_id |-> u, token_address |-> ca, amount_sol |-> sol_amt,
                entry_price |-> entry_price, token_amount |-> token_amt,
                status |-> "OPEN"])

\* ids of the rows SELECT * FROM trades WHERE status = 'OPEN' returns, in rowid order
get_active_trades(tr) ==
    SelectSeq([i \in 1..Len(tr) |-> i], LAMBDA i : tr[i].status = "OPEN")

\* close_trade flipping the status instead of setting it.
close_trade_flip(tr, id) ==
    [i \in 1..Len(tr) |->
        IF i = id
        THEN [tr[i] EXCEPT !.status = IF @ = "OPEN" THEN "CLOSED" ELSE "OPEN"]
        ELSE tr[i]]

\* close_trade wiping the amount of a row it finds already CLOSED.
close_trade_rewrite(tr, id) ==
    [i \in 1..Len(tr) |->
        IF i = id
        THEN [tr[i] EXCEPT !.status = "CLOSED",
                           !.token_amount = IF tr[i].status = "CLOSED" THEN 0 ELSE @]
        ELSE tr[i]]

\* close_trade clearing the entry price along with the status.
close_trade_reprice(tr, id) ==
    [i \in 1..Len(tr) |->
        IF i = id THEN [tr[i] EXCEPT !.status = "CLOSED", !.entry_price = 0] ELSE tr[i]]

\* UPDATE trades SET status = 'CLOSED' WHERE id = ?
close_trade(tr, id) ==
    [i \in 1..Len(tr) |-> IF i = id THEN [tr[i] EXCEPT !.status = "CLOSED"] ELSE tr[i]]


\* ----------------------------------------------------------- market data
\* What the DexScreener request can yield: no answer (status # 200, timeout,
\* exception), an answer without pairs, or a first pair with or without priceUsd.
ResponsesOver(P) ==
    {[ok |-> FALSE, pairs |-> FALSE, priceUsd |-> Missing],
     [ok |-> TRUE, pairs |-> FALSE, priceUsd |-> Missing]}
    \cup {[ok |-> TRUE, pairs |-> TRUE, priceUsd |-> p] : p \in P \cup {Missing}}

Responses == ResponsesOver(PairPrices)

\* get_market_data answering with a zero price where it has no pair to read.
get_market_data_zero(resp) ==
    IF ~resp.ok THEN None
    ELSE [none |-> FALSE,
          priceUsd |-> IF ~resp.pairs \/ resp.priceUsd = Missing THEN 0 ELSE resp.priceUsd]

get_market_data(resp) ==
    IF ~resp.ok THEN None
    ELSE IF ~resp.pairs THEN None
    ELSE [none |-> FALSE,
          priceUsd |-> IF resp.priceUsd = Missing THEN 0 ELSE resp.priceUsd]

\* The pnl formula without the entry_price > 0 test: dividing by zero raises.
PnlUnguarded(curr_price, entry_price) ==
    IF entry_price = 0
    THEN [raised |-> TRUE, num |-> 0, den |-> 1]
    ELSE IF entry_price > 0
    THEN [raised |-> FALSE, num |-> (curr_price - entry_price) * 100, den |-> entry_price]
    ELSE [raised |-> FALSE, num |-> (entry_price - curr_price) * 100, den |-> -entry_price]

\* ------------------------------------------------------------ trigger rule
\* pnl as a fraction num/den with den > 0; raised marks a ZeroDivisionError.
Pnl(curr_price, entry_price) ==
    IF entry_price > 0
    THEN [raised |-> FALSE, num |-> (curr_price - entry_price) * 100, den |-> entry_price]
    ELSE [raised |-> FALSE, num |-> 0, den |-> 1]

StopThreshold(stop_loss) == stop_loss * (-1)

\* The trigger test with strict comparisons.
TriggeredStrict(pnl, tp, sl) ==
    \/ pnl.num > tp * pnl.den
    \/ pnl.num < sl * pnl.den

Triggered(pnl, tp, sl) ==
    \/ pnl.num >= tp * pnl.den
    \/ pnl.num <= sl * pnl.den

\* The message type decided on pnl > 1 instead of pnl > 0.
MsgTypeAboveOne(pnl) == IF pnl.num > pnl.den THEN "Take Profit" ELSE "Stop Loss"

\* msg_type = "Take Profit!" if pnl > 0 else "Stop Loss!"
MsgType(pnl) == IF pnl.num > 0 THEN "Take Profit" ELSE "Stop Loss"

\* The sell path without the auto_sell test.
SellAllowedAlways(auto) == TRUE

SellAllowed(auto) == auto

WalletUsable(wallet) == wallet # None

\* ----------------------------------------------- the call of execute_swap
ExecuteSwapParams ==
    <<"keypair", "input_mint", "output_mint", "amount_lamports", "rpc_url", "slippage">>

ExecuteSwapDefaults == {"slippage"}

\* What bot.py passes: four positional arguments and two keywords.
CallPositional == 4
CallKeywords == {"slippage", "is_simulation"}

\* Python binds the arguments before the coroutine is created: TypeError on an
\* unexpected keyword, on a parameter given twice, or on a required one missing.
BindError(npos, kwargs) ==
    \/ \E k \in kwargs : \A i \in 1..Len(ExecuteSwapParams) : ExecuteSwapParams[i] # k
    \/ \E i \in 1..Len(ExecuteSwapParams) : i <= npos /\ ExecuteSwapParams[i] \in kwargs
    \/ \E i \in 1..Len(ExecuteSwapParams) :
          /\ i > npos
          /\ ExecuteSwapParams[i] \notin kwargs
          /\ ExecuteSwapParams[i] \notin ExecuteSwapDefaults

\* execute_swap returns one str on every path.
ExecuteSwapReturns == {"Quote Error", "Swap Error", "signature", "Execution Error"}

SwapCallAsTuple(npos, kwargs) ==
    {[kind |-> "tuple", success |-> TRUE, net |-> TRUE],
     [kind |-> "tuple", success |-> FALSE, net |-> TRUE]}

\* success, tx = await jup.execute_swap(...): the outcomes of the whole statement.
\* A str longer than two characters does not unpack into two names.
SwapCall(npos, kwargs) ==
    IF BindError(npos, kwargs)
    THEN {[kind |-> "TypeError", success |-> FALSE, net |-> FALSE]}
    ELSE {[kind |-> "ValueError", success |-> FALSE, net |-> TRUE] : r \in ExecuteSwapReturns}

\* ------------------------------------------------------------------ state
VARIABLES
    trades,     \* the trades table: row id -> row
    settings,   \* the settings table: user -> row or NoRow
    wallets,    \* the wallets table: user -> row or NoRow
    pc,         \* where position_monitor stands
    snap,       \* trades read by the monitor at the start of its cycle (ids)
    idx,        \* the monitor's place in snap
    mS,         \* the settings row the monitor read for the current trade
    attempted,  \* trade ids for which the monitor has called execute_swap
    sold,       \* trade id -> sell swaps that reported success (capped at 2)
    ev,         \* what the last step did
    net         \* the network functions: the call in progress, its requests, its result

vars == <<trades, settings, wallets, pc, snap, idx, mS, attempted, sold, ev, net>>

\* data_engine.LAST_KNOWN_PRICE as the module is loaded (dollars)
InitialLastKnownPrice == 150

\* No call of a network function has been made yet.
NoRet == [kind |-> "-", value |-> "-", endpoint |-> 0]

NetIdle ==
    [op |-> "-", fn |-> "idle", phase |-> "-", method |-> "-", attempt |-> 0,
     secondary |-> FALSE, log |-> <<>>,
     rr |-> [done |-> FALSE, value |-> "-", log |-> <<>>],
     ret |-> NoRet, pool |-> <<>>, last |-> InitialLastKnownPrice,
     ans |-> <<>>, good |-> InitialLastKnownPrice,
     amount |-> 0, quoted |-> 0, trail |-> <<>>]

\* The network side where no network function is taken up: the price cache
\* as the import of data_engine leaves it, and no call on record.
NetUnused == [fn |-> "idle", last |-> InitialLastKnownPrice]

TradeIds == 1..Len(trades)

NoEv ==
    [op |-> "init", id |-> 0, mk |-> "-", curr |-> Missing, trig |-> FALSE,
     raised |-> FALSE, note |-> FALSE, net |-> FALSE, sim |-> FALSE, res |-> "-"]

Ev(op, id) == [NoEv EXCEPT !.op = op, !.id = id]

WalletRows ==
    {NoRow} \cup
    {[encrypted_private_key |-> encrypt_with(k, pw), public_key |-> "pub"] :
        k \in PrivKeys, pw \in Passphrases}

TradeRow(u, e) ==
    [user_id |-> u, token_address |-> "T", amount_sol |-> 1, entry_price |-> e,
     token_amount |-> 1, status |-> "OPEN"]

Init ==
    /\ trades \in [1..NumTrades -> {TradeRow(u, e) : u \in Users, e \in EntryPrices}]
    /\ settings = [u \in Users |-> NoRow]
    /\ wallets \in [Users -> WalletRows]
    /\ pc = "fetch"
    /\ snap = <<>>
    /\ idx = 0
    /\ mS = None
    /\ attempted = {}
    /\ sold = [i \in 1..MaxTrades |-> 0]
    /\ ev = NoEv
    /\ net = NetUnused

\* ---------------------------------------------------------------- monitor
Cur == snap[idx]

\* The for loop moves to the next trade of the snapshot, or the cycle ends.
Advance ==
    /\ idx' = idx + 1
    /\ pc' = IF idx < Len(snap) THEN "settings" ELSE "sleep"
    /\ mS' = None

\* The exception leaving the while loop: the task ends.
AbortExit ==
    /\ pc' = "exit"
    /\ idx' = idx
    /\ mS' = None

\* except Exception: logging.error(...), then the sleep.
Abort ==
    /\ pc' = "sleep"
    /\ idx' = idx
    /\ mS' = None

\* A cycle reading the open positions while the one before is at its swap.
MonitorFetchOverlapping ==
    /\ pc \in {"fetch", "swap"}
    /\ snap' = get_active_trades(trades)
    /\ idx' = 1
    /\ pc' = IF Len(snap') > 0 THEN "settings" ELSE "sleep"
    /\ ev' = Ev("fetch", 0)
    /\ UNCHANGED <<trades, settings, wallets, mS, attempted, sold, net>>

MonitorFetch ==
    /\ pc = "fetch"
    /\ snap' = get_active_trades(trades)
    /\ idx' = 1
    /\ pc' = IF Len(snap') > 0 THEN "settings" ELSE "sleep"
    /\ ev' = Ev("fetch", 0)
    /\ UNCHANGED <<trades, settings, wallets, mS, attempted, sold, net>>

MonitorSettings ==
    /\ pc = "settings"
    /\ settings' = SettingsAfterGet(settings, trades[Cur].user_id)
    /\ mS' = settings'[trades[Cur].user_id]
    /\ pc' = "market"
    /\ ev' = Ev("settings", Cur)
    /\ UNCHANGED <<trades, wallets, snap, idx, attempted, sold, net>>

MonitorMarket(resp) ==
    /\ pc = "market"
    /\ LET market == get_market_data(resp)
           mk == IF ~resp.ok THEN "down"
                 ELSE IF ~resp.pairs THEN "nopairs"
                 ELSE IF resp.priceUsd = Missing THEN "noprice" ELSE "price"
       IN IF market = None
          THEN /\ Advance
               /\ ev' = [Ev("market", Cur) EXCEPT !.mk = mk]
          ELSE LET pnl == Pnl(market.priceUsd, trades[Cur].entry_price)
                   tp == mS.take_profit
                   sl == StopThreshold(mS.stop_loss)
               IN IF pnl.raised
                  THEN /\ Abort
                       /\ ev' = [Ev("market", Cur) EXCEPT !.mk = mk, !.raised = TRUE,
                                                          !.curr = market.priceUsd]
                  ELSE IF Triggered(pnl, tp, sl)
                  THEN /\ ev' = [Ev("market", Cur) EXCEPT !.mk = mk, !.trig = TRUE,
                                                          !.curr = market.priceUsd,
                                                          !.res = MsgType(pnl)]
                       /\ IF SellAllowed(mS.auto_sell)
                          THEN /\ pc' = "wallet"
                               /\ UNCHANGED <<idx, mS>>
                          ELSE Advance
                  ELSE /\ Advance
                       /\ ev' = [Ev("market", Cur) EXCEPT !.mk = mk,
                                                          !.curr = market.priceUsd]
    /\ UNCHANGED <<trades, settings, wallets, snap, attempted, sold, net>>

MonitorWallet ==
    /\ pc = "wallet"
    /\ LET wallet == get_wallet(wallets, trades[Cur].user_id)
       IN IF WalletUsable(wallet)
          THEN /\ pc' = "swap"
               /\ UNCHANGED <<idx, mS>>
          ELSE Advance
    /\ ev' = [Ev("wallet", Cur) EXCEPT !.trig = TRUE]
    /\ UNCHANGED <<trades, settings, wallets, snap, attempted, sold, net>>

\* The monitor closing the trade before the swap call has answered.
MonitorSwapCloseFirst(r) ==
    /\ pc = "swap"
    /\ attempted' = attempted \cup {Cur}
    /\ trades' = close_trade(trades, Cur)
    /\ Abort
    /\ ev' = [Ev("swap", Cur) EXCEPT !.sim = mS.simulation_mode, !.trig = TRUE,
                                     !.raised = TRUE, !.net = r.net, !.res = r.kind]
    /\ UNCHANGED <<settings, wallets, snap, sold, net>>

\* Lines 107-129: the swap, the notification, the close, the except clause.
\* sent: bot.send_message returns; closed: db.close_trade returns.
MonitorSwap(r) ==
    /\ pc = "swap"
    /\ attempted' = attempted \cup {Cur}
    /\ IF r.kind # "tuple"
       THEN /\ Abort
            /\ ev' = [Ev("swap", Cur) EXCEPT !.sim = mS.simulation_mode, !.trig = TRUE,
                         !.raised = TRUE, !.net = r.net, !.res = r.kind]
            /\ UNCHANGED <<trades, sold>>
       ELSE /\ sold' = IF r.success
                       THEN [sold EXCEPT ![Cur] = IF @ < 2 THEN @ + 1 ELSE @]
                       ELSE sold
            /\ \E sent \in BOOLEAN, closed \in BOOLEAN :
                  IF ~sent \/ (r.success /\ ~closed)
                  THEN /\ Abort
                       /\ ev' = [Ev("swap", Cur) EXCEPT !.sim = mS.simulation_mode,
                                    !.trig = TRUE, !.raised = TRUE, !.note = sent,
                                    !.net = r.net,
                                    !.res = IF r.success THEN "success" ELSE "fail"]
                       /\ UNCHANGED trades
                  ELSE /\ Advance
                       /\ ev' = [Ev("swap", Cur) EXCEPT !.sim = mS.simulation_mode,
                                    !.trig = TRUE, !.note = TRUE, !.net = r.net,
                                    !.res = IF r.success THEN "success" ELSE "fail"]
                       /\ trades' = IF r.success THEN close_trade(trades, Cur) ELSE trades
    /\ UNCHANGED <<settings, wallets, snap, net>>

MonitorSleep ==
    /\ pc = "sleep"
    /\ pc' = "fetch"
    /\ snap' = <<>>
    /\ idx' = 0
    /\ ev' = Ev("sleep", 0)
    /\ UNCHANGED <<trades, settings, wallets, mS, attempted, sold, net>>

\* One step of position_monitor, the market answering from R.
MonitorWith(R) ==
    \/ MonitorFetch
    \/ MonitorSettings
    \/ \E resp \in R : MonitorMarket(resp)
    \/ MonitorWallet
    \/ \E r \in SwapCall(CallPositional, CallKeywords) : MonitorSwap(r)
    \/ MonitorSleep

Monitor == MonitorWith(Responses)

\* --------------------------------------------------------------- handlers
\* manual_sell: closes the row whose id the callback data names.
ManualSell(id) ==
    /\ trades' = close_trade(trades, id)
    /\ ev' = [Ev("manual_sell", id) EXCEPT !.res = trades[id].status]
    /\ UNCHANGED <<settings, wallets, pc, snap, idx, mS, attempted, sold, net>>

ToggleColumn(mode) ==
    CASE mode = "autobuy" -> "auto_buy"
      [] mode = "autosell" -> "auto_sell"
      [] mode = "sim" -> "simulation_mode"

\* The toggle callbacks taken up here: toggle_autosell and toggle_sim.
ToggleModes == {"autosell", "sim"}

\* toggle: get_settings, update_setting(col, 0 if s[col] else 1), then the panel.
Toggle(u, mode) ==
    /\ LET col == ToggleColumn(mode)
           st == SettingsAfterGet(settings, u)
       IN settings' = SettingsAfterGet(update_setting(st, u, col, ~st[u][col]), u)
    /\ ev' = Ev("toggle", 0)
    /\ UNCHANGED <<trades, wallets, pc, snap, idx, mS, attempted, sold, net>>

\* save_setting storing whatever number was typed.
save_setting_unchecked(u, col, min_v, max_v, val) ==
    /\ settings' = update_setting(settings, u, col, val)
    /\ ev' = [Ev("save_setting", u) EXCEPT !.mk = col, !.curr = val, !.res = "saved"]

\* save_setting(m, state, col, min_v, max_v) with float(m.text) = val.  The
\* event of an accepted value keeps the user in id, the column in mk and the
\* value in curr; res is the answer sent, "Saved." or "Invalid.".
save_setting(u, col, min_v, max_v, val) ==
    IF min_v <= val /\ val <= max_v
    THEN /\ settings' = update_setting(settings, u, col, val)
         /\ ev' = [Ev("save_setting", u) EXCEPT !.mk = col, !.curr = val, !.res = "saved"]
    ELSE /\ settings' = settings
         /\ ev' = [Ev("save_setting", 0) EXCEPT !.res = "invalid"]

set_tp(u, val) ==
    /\ save_setting(u, "take_profit", TpMin, TpMax, val)
    /\ UNCHANGED <<trades, wallets, pc, snap, idx, mS, attempted, sold, net>>

set_sl(u, val) ==
    /\ save_setting(u, "stop_loss", SlMin, SlMax, val)
    /\ UNCHANGED <<trades, wallets, pc, snap, idx, mS, attempted, sold, net>>

\* The settings panel: get_settings(user) creates the default row on first read.
ShowSettings(u) ==
    /\ settings[u] = NoRow
    /\ settings' = SettingsAfterGet(settings, u)
    /\ ev' = Ev("show_settings", 0)
    /\ UNCHANGED <<trades, wallets, pc, snap, idx, mS, attempted, sold, net>>

\* /start: init_db creates the missing tables and keeps every row.
Start ==
    /\ ev' = Ev("start", 0)
    /\ UNCHANGED <<trades, settings, wallets, pc, snap, idx, mS, attempted, sold, net>>

BuyAmounts == {0, 1}

\* execute_trade recording the position before the swap has answered.
ExecuteTradeAddFirst(u, amount_sol, r) ==
    /\ IF amount_sol <= 0
       THEN /\ ev' = [Ev("execute_trade", 0) EXCEPT !.res = "insufficient"]
            /\ UNCHANGED <<trades, settings>>
       ELSE IF get_wallet(wallets, u) = None
       THEN /\ ev' = [Ev("execute_trade", 0) EXCEPT !.res = "nowallet"]
            /\ UNCHANGED <<trades, settings>>
       ELSE /\ settings' = SettingsAfterGet(settings, u)
            /\ IF Len(trades) < MaxTrades
               THEN \E price \in EntryPrices :
                       trades' = add_trade(trades, u, "T", amount_sol, price,
                                           IF price > 0 THEN 1 ELSE 0)
               ELSE UNCHANGED trades
            /\ IF r.kind # "tuple"
               THEN ev' = [Ev("execute_trade", 0) EXCEPT
                             !.raised = TRUE, !.net = r.net, !.res = r.kind]
               ELSE ev' = [Ev("execute_trade", 0) EXCEPT
                             !.sim = settings'[u].simulation_mode,
                             !.net = r.net,
                             !.res = IF r.success THEN "success" ELSE "fail"]
    /\ UNCHANGED <<wallets, pc, snap, idx, mS, attempted, sold, net>>

\* execute_trade(message, state, amount_sol, user_id); price is the FSM's active_price;
\* the table is capped at MaxTrades rows.
ExecuteTrade(u, amount_sol, r) ==
    /\ IF amount_sol <= 0
       THEN /\ ev' = [Ev("execute_trade", 0) EXCEPT !.res = "insufficient"]
            /\ UNCHANGED <<trades, settings>>
       ELSE IF get_wallet(wallets, u) = None
       THEN /\ ev' = [Ev("execute_trade", 0) EXCEPT !.res = "nowallet"]
            /\ UNCHANGED <<trades, settings>>
       ELSE /\ settings' = SettingsAfterGet(settings, u)
            /\ IF r.kind # "tuple"
               THEN /\ ev' = [Ev("execute_trade", 0) EXCEPT
                                !.raised = TRUE, !.net = r.net, !.res = r.kind]
                    /\ UNCHANGED trades
               ELSE /\ ev' = [Ev("execute_trade", 0) EXCEPT
                                !.sim = settings'[u].simulation_mode,
                                !.net = r.net,
                                !.res = IF r.success THEN "success" ELSE "fail"]
                    /\ IF r.success /\ Len(trades) < MaxTrades
                       THEN \E price \in EntryPrices :
                               trades' = add_trade(trades, u, "T", amount_sol, price,
                                                   IF price > 0 THEN 1 ELSE 0)
                       ELSE UNCHANGED trades
    /\ UNCHANGED <<wallets, pc, snap, idx, mS, attempted, sold, net>>

Handlers ==
    \/ \E id \in TradeIds : ManualSell(id)
    \/ \E u \in Users, mode \in ToggleModes : Toggle(u, mode)
    \/ \E u \in Users : ShowSettings(u)
    \/ Start
    \/ \E u \in Users, a \in BuyAmounts, r \in SwapCall(CallPositional, CallKeywords) :
          ExecuteTrade(u, a, r)

Next == Monitor \/ Handlers

Spec == Init /\ [][Next]_vars

\* ------------------------------------------- the trigger rule on its own
\* One position, a usable wallet, a fine grid of prices and of values typed
\* into the take-profit and stop-loss prompts.
TrigEntryPrices == {-100, 0, 100, 200}
TrigPrices ==
    {0, 1, 2, 85, 86, 90, 91, 99, 100, 101, 119, 120, 129, 130,
     170, 171, 180, 198, 200, 202, 240, 259, 260, 1100, 2200}
TrigTpInputs == {0, 1, 20, 1000, 1001}
TrigSlInputs == {0, 1, 10, 99, 100}

GoodWallet ==
    [encrypted_private_key |-> encrypt_key("k1"), public_key |-> "pub"]

TrigInit ==
    /\ trades \in [1..1 -> {TradeRow(u, e) : u \in Users, e \in TrigEntryPrices}]
    /\ settings = [u \in Users |-> NoRow]
    /\ wallets = [u \in Users |-> GoodWallet]
    /\ pc = "fetch"
    /\ snap = <<>>
    /\ idx = 0
    /\ mS = None
    /\ attempted = {}
    /\ sold = [i \in 1..MaxTrades |-> 0]
    /\ ev = NoEv
    /\ net = NetUnused

TrigNext ==
    \/ MonitorWith(ResponsesOver(TrigPrices))
    \/ \E u \in Users, val \in TrigTpInputs : set_tp(u, val)
    \/ \E u \in Users, val \in TrigSlInputs : set_sl(u, val)
    \/ \E u \in Users : ShowSettings(u)

TrigSpec == TrigInit /\ [][TrigNext]_vars

\* ------------------------------------------------ the monitor left to run
\* Every position stays triggered (the price stays under the stop), auto_sell
\* stays on, every wallet decrypts, nobody closes a position by hand. The
\* monitor is a task of the event loop whose awaits all return, so its next
\* step is always taken: weak fairness on its steps.
LivePrices == {50, 85}
LiveEntryPrices == {100, 200}

LiveResponses == {[ok |-> TRUE, pairs |-> TRUE, priceUsd |-> p] : p \in LivePrices}

LiveInit ==
    /\ trades \in [1..NumTrades -> {TradeRow(u, e) : u \in Users, e \in LiveEntryPrices}]
    /\ settings = [u \in Users |-> NoRow]
    /\ wallets = [u \in Users |-> GoodWallet]
    /\ pc = "fetch"
    /\ snap = <<>>
    /\ idx = 0
    /\ mS = None
    /\ attempted = {}
    /\ sold = [i \in 1..MaxTrades |-> 0]
    /\ ev = NoEv
    /\ net = NetUnused

LiveNext ==
    \/ MonitorWith(LiveResponses)
    \/ \E u \in Users : Toggle(u, "sim")
    \/ Start

LiveSpec == LiveInit /\ [][LiveNext]_vars /\ WF_vars(MonitorWith(LiveResponses))

\* ------------------------------------------------- the store failing
\* aiosqlite raising (database locked, disk error) in one of the monitor's
\* three reads: the exception reaches the except clause of the while loop.
MonitorFetchRaises ==
    /\ pc = "fetch"
    /\ Abort
    /\ ev' = [Ev("fetch", 0) EXCEPT !.raised = TRUE, !.res = "PersistenceError"]
    /\ UNCHANGED <<trades, settings, wallets, snap, attempted, sold, net>>

MonitorSettingsRaises ==
    /\ pc = "settings"
    /\ Abort
    /\ ev' = [Ev("settings", Cur) EXCEPT !.raised = TRUE, !.res = "PersistenceError"]
    /\ UNCHANGED <<trades, settings, wallets, snap, attempted, sold, net>>

\* get_wallet's SELECT sits outside its try: only decrypt_key is guarded.
MonitorWalletRaises ==
    /\ pc = "wallet"
    /\ Abort
    /\ ev' = [Ev("wallet", Cur) EXCEPT !.trig = TRUE, !.raised = TRUE,
                                       !.res = "PersistenceError"]
    /\ UNCHANGED <<trades, settings, wallets, snap, attempted, sold, net>>

\* Positions held when the process starts, in the specifications of one cycle
\* after another.
CycleTrades == 2
CyclePrices == {85, 100, 130}

CycleResponses == ResponsesOver(CyclePrices)

CycleInit ==
    /\ trades \in [1..CycleTrades -> {TradeRow(u, e) : u \in Users, e \in EntryPrices}]
    /\ settings = [u \in Users |-> NoRow]
    /\ wallets = [u \in Users |-> GoodWallet]
    /\ pc = "fetch"
    /\ snap = <<>>
    /\ idx = 0
    /\ mS = None
    /\ attempted = {}
    /\ sold = [i \in 1..MaxTrades |-> 0]
    /\ ev = NoEv
    /\ net = NetUnused

CycleMonitor ==
    \/ MonitorWith(CycleResponses)
    \/ MonitorFetchRaises
    \/ MonitorSettingsRaises
    \/ MonitorWalletRaises

CycleNext == CycleMonitor

\* position_monitor is a task of the event loop and every await in it returns
\* or raises (each request carries a timeout): its next step is always taken.
CycleSpec == CycleInit /\ [][CycleNext]_vars /\ WF_vars(CycleMonitor)

\* ------------------------------------------------------ network functions
botVars == <<trades, settings, wallets, pc, snap, idx, mS, attempted, sold, ev>>

\* for attempt in range(3)
MaxAttempts == 3
\* RPC endpoints the environment offers
NumEndpoints == 2

\* JSON bodies of a 200 answer: a quote, an object with an "error" key, an
\* empty object, an object with a "swapTransaction" key.
Bodies == {"quote", "error", "empty", "swaptx"}
StatusCodes == {400, 403, 429, 500}

\* What one request can yield. An exception is a timeout, a connection error
\* or a body that resp.json cannot read.
Outcomes ==
    {[kind |-> "status", code |-> 200, body |-> b] : b \in Bodies}
    \cup {[kind |-> "status", code |-> c, body |-> "-"] : c \in StatusCodes}
    \cup {[kind |-> "exception", code |-> 0, body |-> "-"]}

Hosts == {"quote-api", "api.jup", "other"}
Methods == {"GET", "POST"}

\* One pass of the body of the for loop of retry_request.
AttemptResult(method, o) ==
    IF o.kind = "exception"
    THEN [returns |-> FALSE, switch |-> FALSE, slept |-> TRUE]
    ELSE IF o.code = 200
    THEN [returns |-> TRUE, switch |-> FALSE, slept |-> FALSE]
    ELSE IF method = "GET" /\ o.code = 403
    THEN [returns |-> FALSE, switch |-> TRUE, slept |-> FALSE]
    ELSE [returns |-> FALSE, switch |-> FALSE, slept |-> FALSE]

\* The for loop going one pass beyond range(3).
RetryLoopDoneLate(attempts) == attempts > MaxAttempts

RetryLoopDone(attempts) == attempts >= MaxAttempts

Finish(n, kind, value, endpoint) ==
    [n EXCEPT !.fn = "idle", !.phase = "-",
              !.ret = [kind |-> kind, value |-> value, endpoint |-> endpoint]]

\* execute_swap going on to the swap-build request whatever the quote was.
AfterRetryNoQuoteCheck(n, v) ==
    LET m == [n EXCEPT !.rr = [done |-> TRUE, value |-> v, log |-> n.log],
                       !.trail = IF n.fn = "execute_swap"
                                 THEN Append(@, [phase |-> n.phase, value |-> v])
                                 ELSE @]
    IN IF m.fn = "retry_request" THEN Finish(m, "body", v, 0)
       ELSE IF m.phase = "quote"
       THEN [m EXCEPT !.phase = "swap", !.method = "POST", !.attempt = 0,
                      !.secondary = FALSE, !.log = <<>>]
       ELSE IF v # "swaptx" THEN Finish(m, "Swap Error", v, 0)
            ELSE [m EXCEPT !.phase = "send"]

\* What the caller does with the value retry_request returned; trail records,
\* per execute_swap call, each phase that ran and what it produced.
AfterRetry(n, v) ==
    LET m == [n EXCEPT !.rr = [done |-> TRUE, value |-> v, log |-> n.log],
                       !.trail = IF n.fn = "execute_swap"
                                 THEN Append(@, [phase |-> n.phase, value |-> v])
                                 ELSE @]
    IN IF m.fn = "retry_request" THEN Finish(m, "body", v, 0)
       ELSE IF m.phase = "quote"
       THEN IF v \in {"None", "empty"} THEN Finish(m, "Quote Error", "Connection Failed", 0)
            ELSE IF v = "error" THEN Finish(m, "Quote Error", "error", 0)
            ELSE [m EXCEPT !.phase = "swap", !.method = "POST", !.attempt = 0,
                           !.secondary = FALSE, !.log = <<>>]
       ELSE IF v # "swaptx" THEN Finish(m, "Swap Error", v, 0)
            ELSE [m EXCEPT !.phase = "send"]

\* retry_request(url, method): an unknown host returns None at once;
\* resolve_ip_robust always returns an address.
CallRetryRequest(host, method) ==
    /\ net.fn = "idle"
    /\ LET n == [net EXCEPT !.op = "retry_request", !.fn = "retry_request",
                            !.phase = "request", !.method = method, !.attempt = 0,
                            !.secondary = FALSE, !.log = <<>>, !.pool = <<>>,
                            !.ret = NoRet, !.ans = <<>>,
                            !.amount = 0, !.quoted = 0, !.trail = <<>>]
       IN net' = IF host = "other" THEN AfterRetry(n, "None") ELSE n
    /\ UNCHANGED botVars

\* Token quantities are counted in tenths of a whole unit, so that the REAL
\* token_amount column can hold a fraction.
AmountScale == 10
TokenAmounts == {5, 10, 15}

\* Python's int() on a non-negative float: the fraction is dropped.
int_trunc(a) == (a \div AmountScale) * AmountScale

\* execute_swap(keypair, input_mint, output_mint, amount_lamports, rpc_url, slippage):
\* the quote URL carries amount={int(amount_lamports)}.
CallExecuteSwap(amount) ==
    /\ net.fn = "idle"
    /\ net' = [net EXCEPT !.op = "execute_swap", !.fn = "execute_swap",
                          !.phase = "quote", !.method = "GET", !.attempt = 0,
                          !.secondary = FALSE, !.log = <<>>, !.pool = <<>>,
                          !.ret = NoRet, !.ans = <<>>,
                          !.amount = amount, !.quoted = int_trunc(amount),
                          !.trail = <<>>]
    /\ UNCHANGED botVars

\* One request of retry_request and, when it returns, its caller's next lines.
RequestStep(o) ==
    /\ net.fn \in {"retry_request", "execute_swap"}
    /\ net.phase \in {"request", "quote", "swap"}
    /\ LET a == AttemptResult(net.method, o)
           n == [net EXCEPT !.attempt = @ + 1, !.log = Append(@, o),
                            !.secondary = @ \/ a.switch]
       IN net' = IF a.returns THEN AfterRetry(n, o.body)
                 ELSE IF RetryLoopDone(n.attempt) THEN AfterRetry(n, "None")
                 ELSE n
    /\ UNCHANGED botVars

\* Lines 142-153: sign, then send_raw_transaction through AsyncClient(rpc_url),
\* rpc_url being the first endpoint; pool[i] tells what endpoint i would answer.
SendStep(signs, pool) ==
    /\ net.fn = "execute_swap"
    /\ net.phase = "send"
    /\ LET n == [net EXCEPT !.pool = pool,
                            !.trail = Append(@, [phase |-> "send",
                                                 value |-> IF ~signs THEN "sign"
                                                           ELSE pool[1]])]
       IN net' = IF ~signs THEN Finish(n, "Execution Error", "sign", 0)
                 ELSE IF pool[1] = "ok" THEN Finish(n, "signature", "tx", 1)
                 ELSE Finish(n, "Execution Error", "send", 1)
    /\ UNCHANGED botVars

\* What a price provider answers: a price (dollars), or nothing usable (a
\* status other than 200, an exception, a payload without the price).
SolPrices == {0, 140, 160}
ProviderAnswers ==
    {[ok |-> FALSE, price |-> Missing]} \cup {[ok |-> TRUE, price |-> p] : p \in SolPrices}

\* get_sol_price with Jupiter answering r1 and CoinGecko r2.
\* get_sol_price returning the secondary's price without storing it.
get_sol_price_unstored(last, r1, r2) ==
    IF r1.ok THEN [price |-> r1.price, last |-> r1.price]
    ELSE IF r2.ok THEN [price |-> r2.price, last |-> last]
    ELSE [price |-> last, last |-> last]

get_sol_price(last, r1, r2) ==
    IF r1.ok THEN [price |-> r1.price, last |-> r1.price]
    ELSE IF r2.ok THEN [price |-> r2.price, last |-> r2.price]
    ELSE [price |-> last, last |-> last]

\* ans keeps the two answers of the call; good is the last price a provider
\* gave in any call (the initial constant before the first).
GetSolPrice(r1, r2) ==
    /\ net.fn = "idle"
    /\ LET g == get_sol_price(net.last, r1, r2)
       IN net' = [net EXCEPT !.op = "get_sol_price", !.last = g.last,
                             !.ret = [kind |-> "price", value |-> g.price, endpoint |-> 0],
                             !.ans = <<r1, r2>>,
                             !.good = IF r1.ok THEN r1.price
                                      ELSE IF r2.ok THEN r2.price ELSE @]
    /\ UNCHANGED botVars

NetInit ==
    /\ trades = <<>>
    /\ settings = [u \in Users |-> NoRow]
    /\ wallets = [u \in Users |-> NoRow]
    /\ pc = "fetch"
    /\ snap = <<>>
    /\ idx = 0
    /\ mS = None
    /\ attempted = {}
    /\ sold = [i \in 1..MaxTrades |-> 0]
    /\ ev = NoEv
    /\ net = NetIdle

NetNext ==
    \/ \E host \in Hosts, method \in Methods : CallRetryRequest(host, method)
    \/ \E amount \in TokenAmounts : CallExecuteSwap(amount)
    \/ \E o \in Outcomes : RequestStep(o)
    \/ \E signs \in BOOLEAN, pool \in [1..NumEndpoints -> {"ok", "err"}] : SendStep(signs, pool)
    \/ \E r1 \in ProviderAnswers, r2 \in ProviderAnswers : GetSolPrice(r1, r2)

NetSpec == NetInit /\ [][NetNext]_vars

\* ------------------------------------------------------ process shutdown
\* main ends (polling stopped) and asyncio.run cancels the tasks still alive:
\* CancelledError is raised in position_monitor at the await it is suspended
\* on. It is a BaseException, so except Exception does not catch it and the
\* task ends there. The execute_swap call raises before it suspends, so the
\* monitor is never suspended at it.
AwaitPoints == {"fetch", "settings", "market", "wallet", "sleep"}

Cancel ==
    /\ pc \in AwaitPoints
    /\ pc' = "cancelled"
    /\ ev' = [Ev("cancel", IF pc \in {"fetch", "sleep"} THEN 0 ELSE Cur) EXCEPT !.res = pc]
    /\ UNCHANGED <<trades, settings, wallets, snap, idx, mS, attempted, sold, net>>

ShutdownNext ==
    \/ CycleMonitor
    \/ Cancel

ShutdownSpec == CycleInit /\ [][ShutdownNext]_vars

\* ------------------------------------------------- the settings handlers
\* The settings table under its handlers alone, from an empty table.
AllToggleModes == {"autobuy", "autosell", "sim"}
SetTpInputs == {-5, 0, 1, 1000, 1001}
SetSlInputs == {-5, 0, 1, 99, 100}
SetSlipInputs == {0, 1, 50, 51}

\* set_slip accepts 0.1 <= val <= 50; the inputs here are whole percents, so
\* the lower bound is compared in tenths.
SlipMinTenths == 1
SlipMax == 50

set_slip(u, val) ==
    /\ IF SlipMinTenths <= val * 10 /\ val <= SlipMax
       THEN /\ settings' = update_setting(settings, u, "slippage", val)
            /\ ev' = [Ev("save_setting", u) EXCEPT !.mk = "slippage", !.curr = val,
                                                   !.res = "saved"]
       ELSE /\ settings' = settings
            /\ ev' = [Ev("save_setting", 0) EXCEPT !.res = "invalid"]
    /\ UNCHANGED <<trades, wallets, pc, snap, idx, mS, attempted, sold, net>>

\* The Settings button: show_settings_panel reads get_settings(user) whether
\* or not the row exists; id carries the user.
SettingsPanel(u) ==
    /\ settings' = SettingsAfterGet(settings, u)
    /\ ev' = [Ev("settings_panel", u) EXCEPT
                !.res = IF settings[u] = NoRow THEN "created" ELSE "stored"]
    /\ UNCHANGED <<trades, wallets, pc, snap, idx, mS, attempted, sold, net>>

SettingsInit ==
    /\ trades = <<>>
    /\ settings = [u \in Users |-> NoRow]
    /\ wallets = [u \in Users |-> NoRow]
    /\ pc = "fetch"
    /\ snap = <<>>
    /\ idx = 0
    /\ mS = None
    /\ attempted = {}
    /\ sold = [i \in 1..MaxTrades |-> 0]
    /\ ev = NoEv
    /\ net = NetUnused

SettingsNext ==
    \/ \E u \in Users : SettingsPanel(u)
    \/ \E u \in Users, mode \in AllToggleModes : Toggle(u, mode)
    \/ \E u \in Users, val \in SetTpInputs : set_tp(u, val)
    \/ \E u \in Users, val \in SetSlInputs : set_sl(u, val)
    \/ \E u \in Users, val \in SetSlipInputs : set_slip(u, val)

SettingsSpec == SettingsInit /\ [][SettingsNext]_vars

\* ------------------------------------------------------- the wallet store
\* add_wallet and get_wallet next to the monitor.  Rows already in the table
\* may have been sealed under another MASTER_KEY than the one now in force.
VaultKeys == {"k1", "k2"}
VaultPubs == {"pubA", "pubB"}
VaultPrices == {100, 130}

StoredWalletRows ==
    {NoRow} \cup
    {[encrypted_private_key |-> encrypt_with("k1", pw), public_key |-> "pubA"] :
        pw \in Passphrases}

\* db.add_wallet(user_id, priv, pub); id carries the user.
AddWallet(u, k, pub) ==
    /\ wallets' = add_wallet(wallets, u, k, pub)
    /\ ev' = [Ev("add_wallet", u) EXCEPT !.res = k]
    /\ UNCHANGED <<trades, settings, pc, snap, idx, mS, attempted, sold, net>>

\* export_key: w = get_wallet(user), then w[1] goes into the answer; with no
\* wallet returned, w[1] raises TypeError.  id carries the user.
ExportKey(u) ==
    /\ LET w == get_wallet(wallets, u)
       IN ev' = IF w = None
                THEN [Ev("export", u) EXCEPT !.raised = TRUE, !.res = "TypeError"]
                ELSE [Ev("export", u) EXCEPT !.res = w.key]
    /\ UNCHANGED <<trades, settings, wallets, pc, snap, idx, mS, attempted, sold, net>>

VaultInit ==
    /\ trades \in [1..NumTrades -> {TradeRow(u, 100) : u \in Users}]
    /\ settings = [u \in Users |-> NoRow]
    /\ wallets \in [Users -> StoredWalletRows]
    /\ pc = "fetch"
    /\ snap = <<>>
    /\ idx = 0
    /\ mS = None
    /\ attempted = {}
    /\ sold = [i \in 1..MaxTrades |-> 0]
    /\ ev = NoEv
    /\ net = NetUnused

VaultNext ==
    \/ MonitorWith(ResponsesOver(VaultPrices))
    \/ \E u \in Users, k \in VaultKeys, pub \in VaultPubs : AddWallet(u, k, pub)
    \/ \E u \in Users : ExportKey(u)

VaultSpec == VaultInit /\ [][VaultNext]_vars

\* ----------------------------------------------------------------- claims
MonitorOps == {"fetch", "settings", "market", "wallet", "swap", "sleep"}

C2_ClosedIsTerminal ==
    [][/\ Len(trades') >= Len(trades)
       /\ \A id \in TradeIds :
             trades[id].status = "CLOSED" => trades'[id].status = "CLOSED"]_vars

\* manual_sell has just run on a position that was already CLOSED.
C2_Witness ==
    /\ ev.op = "manual_sell"
    /\ ev.res = "CLOSED"
    /\ trades[ev.id].status = "CLOSED"

Range(f) == {f[i] : i \in DOMAIN f}

\* C3: the monitor reaches the execute_swap call for a position only from an
\* evaluation that triggered, with auto_sell set in the settings it read and a
\* wallet whose key decrypts; a triggered position with auto_sell off, or with
\* no usable key, gets no swap call and its row is left as it was.
C3_SellOnlyWhenTriggeredAutoKey ==
    [][/\ (pc' = "wallet" /\ pc # "wallet") =>
              /\ pc = "market"
              /\ ev'.op = "market"
              /\ ev'.trig
              /\ mS.auto_sell
              /\ idx' = idx
       /\ (pc' = "swap" /\ pc # "swap") =>
              /\ pc = "wallet"
              /\ ev'.op = "wallet"
              /\ get_wallet(wallets, trades[Cur].user_id) # None
              /\ idx' = idx
       /\ (ev'.op = "swap" \/ attempted' # attempted) =>
              /\ pc = "swap"
              /\ ev'.id = Cur
              /\ attempted' = attempted \cup {Cur}
       /\ (ev'.op = "market" /\ ev'.trig /\ ~mS.auto_sell) =>
              /\ pc' \notin {"wallet", "swap"}
              /\ trades' = trades
              /\ attempted' = attempted
       /\ (ev'.op = "wallet" /\ get_wallet(wallets, trades[Cur].user_id) = None) =>
              /\ pc' \notin {"wallet", "swap"}
              /\ trades' = trades
              /\ attempted' = attempted]_vars

\* A swap call has been made for some position, and now a triggered position
\* has been passed over because auto_sell is off; it is still OPEN.
C3_Witness ==
    /\ attempted # {}
    /\ ev.op = "market"
    /\ ev.trig
    /\ pc \notin {"wallet", "swap"}
    /\ trades[ev.id].status = "OPEN"

\* C5: when get_market_data returns None for a position, the monitor goes on
\* to the next position: no swap call, no notification, no trigger, no
\* exception, and no stored row changes.
C5_NoMarketDataSkips ==
    [][(ev'.op = "market" /\ ev'.mk \in {"down", "nopairs"}) =>
          /\ trades' = trades
          /\ settings' = settings
          /\ wallets' = wallets
          /\ attempted' = attempted
          /\ sold' = sold
          /\ ~ev'.trig
          /\ ~ev'.note
          /\ ~ev'.raised
          /\ idx' = idx + 1
          /\ pc' \in {"settings", "sleep"}]_vars

\* The lookup has just returned None for an OPEN position with a positive entry price.
C5_Witness ==
    /\ ev.op = "market"
    /\ ev.mk = "nopairs"
    /\ trades[ev.id].status = "OPEN"
    /\ trades[ev.id].entry_price > 0

\* C6: a pair that carries no priceUsd never makes the monitor trigger.
C6_MissingPriceNeverTriggers ==
    ~(ev.op = "market" /\ ev.mk = "noprice" /\ ev.trig)

\* C8: a monitor step changes the trades table only by closing the position
\* whose swap reported success in that step; after a failed swap call the
\* table is as before, and every cycle starts from all OPEN positions.
C8_CloseOnlyAfterSuccess ==
    [][/\ (ev'.op \in MonitorOps /\ trades' # trades) =>
              /\ ev'.op = "swap"
              /\ ev'.res = "success"
              /\ trades' = close_trade(trades, ev'.id)
       /\ (ev'.op = "swap" /\ ev'.res # "success") => trades' = trades
       /\ ev'.op = "fetch" =>
              Range(snap') = {id \in TradeIds : trades[id].status = "OPEN"}]_vars

\* A position whose swap call failed in an earlier cycle is OPEN and is being
\* evaluated again.
C8_Witness ==
    /\ pc = "settings"
    /\ Cur \in attempted
    /\ trades[Cur].status = "OPEN"

\* C10: a swap called with simulation_mode set makes no network call and
\* answers with a synthetic success, in the monitor and in execute_trade.
C10_SimulationIsolation ==
    (ev.op \in {"swap", "execute_trade"} /\ ev.sim) =>
        /\ ~ev.net
        /\ ~ev.raised
        /\ ev.res = "success"

C7_NonPositiveEntryNeverTriggers ==
    /\ (ev.op = "market" /\ ev.mk \in {"price", "noprice"}
            /\ trades[ev.id].entry_price <= 0) => (~ev.trig /\ ~ev.raised)
    /\ \A id \in attempted : trades[id].entry_price > 0

\* A position with entry_price <= 0 has just been evaluated at a positive
\* price under the tightest thresholds the handlers accept.
C7_Witness ==
    /\ ev.op = "market"
    /\ ev.mk = "price"
    /\ ev.curr > 0
    /\ trades[ev.id].entry_price <= 0
    /\ settings[trades[ev.id].user_id].take_profit = TpMin
    /\ settings[trades[ev.id].user_id].stop_loss = SlMin

C11_IdempotentClose ==
    [][ev'.op = "manual_sell" =>
          /\ trades' = close_trade(trades, ev'.id)
          /\ close_trade(trades', ev'.id) = trades'
          /\ ev'.res = "CLOSED" =>
                /\ ~ev'.raised
                /\ UNCHANGED <<trades, settings, wallets, pc, snap, idx, mS,
                               attempted, sold>>]_vars

\* manual_sell has just run on a CLOSED position that the monitor still holds
\* in the snapshot of its running cycle.
C11_Witness ==
    /\ ev.op = "manual_sell"
    /\ ev.res = "CLOSED"
    /\ ev.id \in Range(snap)

\* C15: the monitor makes the execute_swap call for a position only while the
\* position's row is OPEN in the trades table at the time of the call.
C15_SellOnlyWhileOpen ==
    [][ev'.op = "swap" => trades[Cur].status = "OPEN"]_vars

\* C12: an exception in the monitor, from the store, the swap call or the
\* notification, always leaves it at its sleep, and under fair scheduling the
\* monitor sleeps and starts a new cycle again and again.
C12_MonitorNeverDies ==
    /\ []((ev.op \in MonitorOps /\ ev.raised) => pc = "sleep")
    /\ []<>(pc = "sleep")
    /\ []<>(pc = "fetch")

\* The store has just raised in get_settings, in a cycle that follows one in
\* which the swap call raised.
C12_Witness ==
    /\ ev.op = "settings"
    /\ ev.raised
    /\ pc = "sleep"
    /\ attempted # {}

\* C13: a cycle stopped by an exception that is not the store's was at the
\* last position of its snapshot: no position read at the start of the cycle
\* is left without its evaluation.
C13_ErrorScopedToPosition ==
    (pc = "sleep" /\ ev.op \in MonitorOps /\ ev.raised /\ ev.res # "PersistenceError")
        => idx >= Len(snap)

\* C14: the open positions are read only by a monitor standing at the start
\* of a cycle, which it reaches only from its sleep; the sleep is reached only
\* when the for loop has passed every position of the snapshot or an exception
\* ended the cycle; and the snapshot stays as read until the sleep is over.
C14_CyclesSerial ==
    [][/\ (ev'.op = "fetch" \/ (snap' # snap /\ snap' # <<>>)) => pc = "fetch"
       /\ (pc' = "fetch" /\ pc # "fetch") => pc = "sleep"
       /\ (pc' = "sleep" /\ pc # "sleep") => (idx' > Len(snap') \/ ev'.raised)
       /\ (pc \notin {"fetch", "sleep"}) => snap' = snap]_vars

\* A second cycle has read two positions and stands at the second one, after
\* a cycle whose swap call was made.
C14_Witness ==
    /\ Len(snap) = 2
    /\ idx = 2
    /\ pc = "market"
    /\ attempted # {}

\* C16: a cancelled monitor was stopped between positions: at the read of the
\* open positions, at its sleep, or before the first read made for a position,
\* never after the evaluation of a position has begun.
C16_CancelOnlyBetweenPositions ==
    pc = "cancelled" => ev.res \in {"fetch", "sleep", "settings"}

\* C17: when the first endpoint fails and the second would accept the
\* transaction, execute_swap returns the signature obtained from the second;
\* it returns a submission error only when every endpoint failed.
C17_SubmissionFailover ==
    (net.op = "execute_swap" /\ net.fn = "idle" /\ net.pool # <<>>
        /\ net.ret.value # "sign") =>
        /\ (net.pool[1] = "err" /\ net.pool[2] = "ok") =>
              (net.ret.kind = "signature" /\ net.ret.endpoint = 2)
        /\ net.ret.kind = "Execution Error" =>
              \A e \in 1..NumEndpoints : net.pool[e] = "err"

\* C18: a request answered with a definitive rejection (status 400) is the
\* only request of its retry_request call, and the call has returned.
C18_RejectionNotRetried ==
    \A k \in 1..Len(net.log) :
        net.log[k].code = 400 =>
            /\ Len(net.log) = 1
            /\ net.phase \notin {"request", "quote", "swap"}

\* C19: retry_request makes at most three requests; while it runs it has made
\* fewer than three; it returns at the first 200 answer with that answer's
\* body, and None after three requests without one (or none to an unknown host).
C19_BoundedRetry ==
    /\ Len(net.log) <= MaxAttempts
    /\ net.attempt = Len(net.log)
    /\ net.phase \in {"request", "quote", "swap"} => net.attempt < MaxAttempts
    /\ net.rr.done =>
          LET log == net.rr.log
          IN /\ Len(log) <= MaxAttempts
             /\ IF \E k \in 1..Len(log) : log[k].code = 200
                THEN /\ \A k \in 1..Len(log) : log[k].code = 200 <=> k = Len(log)
                     /\ net.rr.value = log[Len(log)].body
                ELSE /\ net.rr.value = "None"
                     /\ Len(log) \in {0, MaxAttempts}

\* retry_request has returned the body of its third request, after a request
\* that raised and one answered 403.
C19_Witness ==
    /\ net.op = "retry_request"
    /\ net.fn = "idle"
    /\ net.rr.done
    /\ Len(net.rr.log) = MaxAttempts
    /\ net.rr.log[1].kind = "exception"
    /\ net.rr.log[2].code = 403
    /\ net.rr.value = "quote"

\* C20: every price get_sol_price returns is strictly positive.
C20_SolPricePositive ==
    net.op = "get_sol_price" => net.ret.value > 0

\* C21: get_sol_price returns the primary's price when the primary answers,
\* else the secondary's when the secondary answers, else the last price any
\* provider gave in an earlier call (150 before the first), and in that last
\* case the cached value stays as it was.
C21_OracleFallbackOrder ==
    [][net'.op = "get_sol_price" =>
          LET a == net'.ans
          IN /\ a[1].ok => (net'.ret.value = a[1].price /\ net'.last = a[1].price)
             /\ (~a[1].ok /\ a[2].ok) =>
                   (net'.ret.value = a[2].price /\ net'.last = a[2].price)
             /\ (~a[1].ok /\ ~a[2].ok) =>
                   (net'.ret.value = net.good /\ net'.last = net.last)]_vars

\* Both providers have just failed and the call returned a price that the
\* secondary gave in an earlier call.
C21_Witness ==
    /\ net.op = "get_sol_price"
    /\ ~net.ans[1].ok
    /\ ~net.ans[2].ok
    /\ net.ret.value = 140
    /\ net.last = 140

\* C29: an automatic sell offers the whole recorded quantity: the amount in the
\* quote request equals the token_amount handed to execute_swap, with no
\* integer truncation on the way.  Refuted: int() drops the fraction.
C29_SellsFullQuantity ==
    net.op = "execute_swap" => net.quoted = net.amount

\* C30: execute_swap runs its phases in order: the swap-build request is made
\* only after a quote came back without an error, signing and broadcasting
\* only after the swap response held a transaction, and a failure in a phase
\* is returned without any later phase having run.
C30_TwoPhaseOrdering ==
    net.op = "execute_swap" =>
        LET t == net.trail
            order == <<"quote", "swap", "send">>
        IN /\ Len(t) <= 3
           /\ \A k \in 1..Len(t) : t[k].phase = order[k]
           /\ Len(t) >= 2 => t[1].value \notin {"None", "empty", "error"}
           /\ Len(t) >= 3 => t[2].value = "swaptx"
           /\ net.phase = "quote" => Len(t) = 0
           /\ net.phase = "swap" => Len(t) = 1
           /\ net.phase = "send" => Len(t) = 2
           /\ net.method = "POST" => Len(t) >= 1
           /\ net.ret.kind = "Quote Error" => (Len(t) = 1 /\ net.pool = <<>>)
           /\ net.ret.kind = "Swap Error" => (Len(t) = 2 /\ net.pool = <<>>)
           /\ net.ret.kind \in {"signature", "Execution Error"} => Len(t) = 3

C30_Witness ==
    /\ net.op = "execute_swap" /\ net.ret.kind = "signature"
    /\ Len(net.trail) = 3 /\ net.trail[2].value = "swaptx"

\* C22: a position is created exactly when a buy swap reported success:
\* execute_trade appends one OPEN row after a successful execute_swap, and a
\* buy that failed or was turned away (swap failure, amount not positive, no
\* wallet) leaves the trades table as it was; nothing else adds a row.
C22_PositionIffBuySuccess ==
    [][/\ ev'.op = "execute_trade" =>
              IF ev'.res = "success" /\ Len(trades) < MaxTrades
              THEN /\ Len(trades') = Len(trades) + 1
                   /\ SubSeq(trades', 1, Len(trades)) = trades
                   /\ trades'[Len(trades')].status = "OPEN"
              ELSE trades' = trades
       /\ Len(trades') # Len(trades) =>
              (ev'.op = "execute_trade" /\ ev'.res = "success")]_vars

\* A buy by a user whose key decrypts has just failed at the swap call, with
\* room left in the table.
C22_Witness ==
    /\ ev.op = "execute_trade"
    /\ ev.raised
    /\ Len(trades) < MaxTrades
    /\ \E u \in Users : get_wallet(wallets, u) # None

C28_TriggeredUnsoldNotifies ==
    /\ (ev.op = "market" /\ ev.trig /\ pc # "wallet") => ev.note
    /\ (ev.op = "wallet" /\ pc # "swap") => ev.note

\* C24: whatever the settings handlers are given, every stored take_profit
\* and stop_loss is strictly positive, so the monitor's stop threshold
\* -stop_loss is strictly negative and its take-profit threshold positive.
C24_SettingsPositive ==
    \A u \in Users :
        settings[u] # NoRow =>
            /\ settings[u].take_profit > 0
            /\ settings[u].stop_loss > 0
            /\ StopThreshold(settings[u].stop_loss) < 0

\* An out-of-range value has just been turned away while the row holds the
\* smallest thresholds the handlers accept.
C24_Witness ==
    /\ ev.op = "save_setting"
    /\ ev.res = "invalid"
    /\ \E u \in Users :
          /\ settings[u] # NoRow
          /\ settings[u].take_profit = TpMin
          /\ settings[u].stop_loss = SlMin

\* C25: the first get_settings for a user without a row stores the defaults
\* (slippage 1, auto_buy off, auto_sell on, simulation_mode on, take_profit
\* 30, stop_loss 15); a get_settings that finds a row leaves it as stored,
\* and a row never disappears.
C25_LazyDefaults ==
    [][\A u \in Users :
          /\ (ev'.op = "settings_panel" /\ ev'.id = u /\ settings[u] = NoRow) =>
                 settings'[u] = [slippage |-> 1, auto_buy |-> FALSE,
                                 auto_sell |-> TRUE, simulation_mode |-> TRUE,
                                 take_profit |-> 30, stop_loss |-> 15]
          /\ (ev'.op = "settings_panel" /\ settings[u] # NoRow) =>
                 settings'[u] = settings[u]
          /\ (ev'.op = "settings_panel" /\ ev'.id # u) => settings'[u] = settings[u]
          /\ settings[u] # NoRow => settings'[u] # NoRow
          /\ (settings[u] # NoRow /\ ev'.op = "toggle") =>
                 /\ settings'[u].take_profit = settings[u].take_profit
                 /\ settings'[u].stop_loss = settings[u].stop_loss
                 /\ settings'[u].slippage = settings[u].slippage]_vars

\* The panel has just been opened on a row whose thresholds and switches the
\* user had changed, and they are still there.
C25_Witness ==
    /\ ev.op = "settings_panel"
    /\ ev.res = "stored"
    /\ settings[ev.id].take_profit = TpMax
    /\ settings[ev.id].stop_loss = SlMin
    /\ ~settings[ev.id].simulation_mode

C27_WrongPassphraseIsolated ==
    [][/\ \A u \in Users :
             (wallets[u] # NoRow
                 /\ wallets[u].encrypted_private_key.under # MasterPassword) =>
                /\ get_wallet(wallets, u) = None
                /\ (ev'.op = "export" /\ ev'.id = u) =>
                       (ev'.raised /\ ev'.res \notin VaultKeys /\ wallets' = wallets)
                /\ (ev'.op = "wallet" /\ trades[Cur].user_id = u) =>
                       /\ pc' # "swap"
                       /\ attempted' = attempted
                       /\ trades' = trades
                       /\ wallets' = wallets
       /\ ev'.op = "swap" =>
             wallets[trades[Cur].user_id].encrypted_private_key.under = MasterPassword]_vars

\* The monitor has just passed by a triggered position whose user's key was
\* sealed under another passphrase.
C27_Witness ==
    /\ ev.op = "wallet"
    /\ pc # "swap"
    /\ wallets[trades[ev.id].user_id] # NoRow
    /\ wallets[trades[ev.id].user_id].encrypted_private_key.under # MasterPassword

\* C31: a triggered position is classified by its pnl alone, take-profit
\* first: with pnl >= take_profit the message type is take-profit, with
\* pnl <= -stop_loss and pnl < take_profit it is stop-loss, for every
\* threshold the settings handlers can have stored.
C31_ClassificationTakeProfitFirst ==
    [][(ev'.op = "market" /\ ev'.trig) =>
          LET e == trades[Cur].entry_price
              c == ev'.curr
          IN /\ ev'.res \in {"Take Profit", "Stop Loss"}
             /\ (c - e) * 100 >= mS.take_profit * e => ev'.res = "Take Profit"
             /\ ((c - e) * 100 <= -(mS.stop_loss * e)
                    /\ (c - e) * 100 < mS.take_profit * e) => ev'.res = "Stop Loss"]_vars

\* The monitor has just classified as stop-loss a price exactly stop_loss
\* percent below the entry price, under the smallest stop_loss accepted.
C31_Witness ==
    /\ pc = "wallet"
    /\ ev.op = "market"
    /\ ev.trig
    /\ ev.res = "Stop Loss"
    /\ mS.stop_loss = SlMin
    /\ (ev.curr - trades[Cur].entry_price) * 100
           = -(mS.stop_loss * trades[Cur].entry_price)

\* C32: once a user's auto_sell has been stored as off, the monitor makes no
\* execute_swap call for that user's positions: at every such call the stored
\* auto_sell of the position's user is on.  Refuted: the monitor decides on
\* the settings row it read before its awaits.
C32_NoSellAfterAutoSellOff ==
    ev.op = "swap" => settings[trades[ev.id].user_id].auto_sell

\* C33: a value save_setting answered "Saved." for is what a following
\* get_settings of that user returns in that column, also for a user who had
\* no settings row.  Refuted: the UPDATE of a missing row stores nothing.
C33_SavedIsPersisted ==
    (ev.op = "save_setting" /\ ev.res = "saved") =>
        SettingsAfterGet(settings, ev.id)[ev.id][ev.mk] = ev.curr


=============================================================================
